---- MODULE Spec2Model ----
(***************************************************************************)
(* The checkpointed incremental ingestion pipeline of T-Time:               *)
(*   src/mcp/reddit/reddit_fetch.py            RedditIncrementalScraper    *)
(*   src/mcp/pissedconsumer/pissedconsumer_incremental.py                  *)
(*                                      PissedConsumerIncrementalScraper   *)
(*   src/mcp/utils.py      dedup, enrichment, upsert, checkpoint file      *)
(*                                                                         *)
(* A behaviour is a sequence of runs (main(): construct the scraper, then  *)
(* run()) of one of the two scrapers against one checkpoint file and one   *)
(* destination index.  The source sites, the clock, the models and the     *)
(* index service are the environment: what they answer is chosen with \E.  *)
(***************************************************************************)
EXTENDS Integers, Sequences, FiniteSets, TLC

VARIABLES
    clock,              \* time.time(): the wall clock, in whole ticks
    file,               \* the checkpoint file on disk
    store,              \* the destination index: a set of vector records
    scraper,            \* which scraper this process is
    pc,                 \* position of the current run
    state,              \* self.state: the checkpoint dict in memory
    current_timestamp,  \* run(): captured at the start of the run
    last_timestamp,     \* last_timestamp of the current scrape call
    sub_i,              \* run(): index into TARGET_SUBREDDITS
    limit,              \* scrape_new_posts(): limit of the listing
    page_num,           \* scrape_new_reviews(): page being scraped
    max_pages,          \* scrape_new_reviews(): page ceiling
    left,               \* entries of the current listing / page not yet seen
    new_reviews_on_page,\* scrape_new_reviews(): counter of the current page
    all_data,           \* run(): the collected items
    self_error_count,   \* self.error_count: exceptions the scraper caught
    existing_ids,       \* process_and_upload_to_pinecone(): check_if_exists result
    lookup_failed,      \* did a fetch() of check_if_exists raise in this run
    new_items,          \* process_and_upload_to_pinecone(): items kept as new
    error_count,        \* process_and_upload_to_pinecone(): local error_count
    vectors,            \* process_and_upload_to_pinecone(): records to upsert
    batch_i,            \* upsert_to_pinecone(): loop variable i
    stats,              \* run(): the statistics returned
    writes,             \* number of save_state() calls of the current run
    saved,              \* what the save_state() call of the current run returned
    store0,             \* the index as it was when the current run started
    file0,              \* the checkpoint file as it was when the run started
    fn, arg, out,       \* a single call of a pure helper: name, input, result
    source,             \* what the scraped site serves, where a run reads it
    runs,               \* two runs of one source at a time: the locals of each
    root_agent,         \* wheel0/agent.py: the module global root_agent
    calls,              \* wheel0/agent.py: the init_agent() coroutines
    created             \* wheel0/agent.py: the agents create_agent() made

vars == <<clock, file, store, scraper, pc, state, current_timestamp,
          last_timestamp, sub_i, limit, page_num, max_pages, left,
          new_reviews_on_page, all_data, self_error_count, existing_ids,
          lookup_failed, new_items, error_count, vectors, batch_i, stats,
          writes, saved, store0, file0, fn, arg, out, source, runs, root_agent,
          calls, created>>

runVars == <<scraper, pc, state, current_timestamp, last_timestamp, sub_i,
             limit, page_num, max_pages, left, new_reviews_on_page, all_data,
             self_error_count, existing_ids, lookup_failed, new_items,
             error_count, vectors, batch_i, stats, writes, saved, store0, file0>>

fnVars == <<fn, arg, out>>

agentVars == <<root_agent, calls, created>>

taskVars == <<source, runs, agentVars>>

-----------------------------------------------------------------------------
(* Bounds of the model *)

\* the clock runs from 1 to MaxClock
MaxClock == 2
\* a run collects at most MaxItems items; a page or listing holds at most
\* MaxItems entries
MaxItems == 3
\* stands for the existence-lookup batch of check_if_exists (100 in the
\* source), scaled so that lists of MaxItems ids split into several lookups
LookupBatchSize == 2
\* stands for BATCH_SIZE (96 in the source), scaled likewise
UpsertBatchSize == 2
\* analyzer confidence score, in units of 1/MaxScore
MaxScore == 50
\* a scraper catches at most MaxErrors exceptions in a run
MaxErrors == 1

-----------------------------------------------------------------------------
(* Configuration and vocabulary *)

\* dict.get() of an absent key; also the value of "no timestamp"
None == 0

TARGET_SUBREDDITS == <<"tmobile", "tmobilehelp">>
Subreddits == {TARGET_SUBREDDITS[i] : i \in 1..Len(TARGET_SUBREDDITS)}
PCKey == "last_scrape_timestamp"
Keys == Subreddits \cup {PCKey}

Scrapers == {"reddit", "pissedconsumer"}
\* source_platform argument each run() passes to process_and_upload_to_pinecone
SourcePlatform(s) == s

\* identifiers the sources hand out (submission.id, comment.id, data-id)
SourceIds == {"a", "b"}

Min(a, b) == IF a <= b THEN a ELSE b

RECURSIVE SeqUpTo(_, _)
SeqUpTo(S, n) ==
    IF n = 0 THEN {<<>>}
    ELSE LET shorter == SeqUpTo(S, n - 1)
         IN  shorter \cup {Append(s, x) : s \in {t \in shorter : Len(t) = n - 1}, x \in S}

Range(s) == {s[i] : i \in 1..Len(s)}

-----------------------------------------------------------------------------
(* The checkpoint file: utils.load_state / utils.save_state *)

EmptyDict == [k \in {} |-> None]

\* d.get(k)
Get(d, k) == IF k \in DOMAIN d THEN d[k] ELSE None

\* d[k] = v
SetKey_dropOthers(d, k, v) == [x \in {k} |-> v]
SetKey(d, k, v) == [x \in (DOMAIN d) \cup {k} |-> IF x = k THEN v ELSE d[x]]

\* a file is [exists, parses, content]: parses says that json.load() accepts
\* the text, content is the dict that was written into it
MissingFile == [exists |-> FALSE, parses |-> FALSE, content |-> EmptyDict]

\* a file whose text json.load() rejects; d is what had been written to it
CorruptFile(d) == [exists |-> TRUE, parses |-> FALSE, content |-> d]

\* "if os.path.exists(state_file): try: return json.load(f) except
\* Exception: return {}" and "return {}"
LoadState_trusting(f) == IF f.exists THEN f.content ELSE EmptyDict
LoadState(f) == IF f.exists /\ f.parses THEN f.content ELSE EmptyDict

\* save_state(): ok = FALSE is makedirs/open raising, which leaves the file
SaveState(f, d, ok) ==
    IF ok THEN [exists |-> TRUE, parses |-> TRUE, content |-> d] ELSE f

\* the value persisted for key k
Checkpoint(f, k) == Get(LoadState(f), k)

-----------------------------------------------------------------------------
(* Vector ids and the index: utils.generate_vector_id, check_if_exists,
   upsert_to_pinecone *)

\* hashlib.md5(...).hexdigest(), taken to be injective on its input
MD5(s) == "md5:" \o s

GenerateVectorId_noPlatform(source_identifier, source_platform) ==
    MD5(source_identifier)
GenerateVectorId_withTime(source_identifier, source_platform) ==
    MD5(source_platform \o "_" \o source_identifier \o "_" \o ToString(current_timestamp))
GenerateVectorId(source_identifier, source_platform) ==
    MD5(source_platform \o "_" \o source_identifier)

StoreIds(st) == {r.id : r \in st}

\* the slices vector_ids[i:i + batch_size] for i in range(0, len, batch_size)
NumBatches(n, size) == (n + size - 1) \div size
Batch(s, b, size) == SubSeq(s, (b - 1) * size + 1, Min(b * size, Len(s)))

\* a sequence listing the elements of a finite set of strings (dict.keys())
RECURSIVE SetToSeq(_)
SetToSeq(S) ==
    IF S = {} THEN <<>>
    ELSE LET x == CHOOSE y \in S : TRUE IN <<x>> \o SetToSeq(S \ {x})

\* check_if_exists(): one fetch() per batch; a fetch that raises adds nothing
RECURSIVE CheckFrom(_, _, _, _)
CheckFrom(st, vector_ids, failed, b) ==
    IF b > NumBatches(Len(vector_ids), LookupBatchSize) THEN <<>>
    ELSE (IF b \in failed THEN <<>>
          ELSE SetToSeq(Range(Batch(vector_ids, b, LookupBatchSize)) \cap StoreIds(st)))
         \o CheckFrom(st, vector_ids, failed, b + 1)

\* the id batches handed to index.fetch(), in order
LookupCalls(vector_ids) ==
    [b \in 1..NumBatches(Len(vector_ids), LookupBatchSize) |->
        Batch(vector_ids, b, LookupBatchSize)]

\* positions of vector_ids that lookup b covers
LookupPositions(n, b) ==
    ((b - 1) * LookupBatchSize + 1)..Min(b * LookupBatchSize, n)

CheckIfExists_stopAtFailure(st, vector_ids, failed) ==
    LET first == IF failed = {} THEN NumBatches(Len(vector_ids), LookupBatchSize) + 1
                 ELSE CHOOSE b \in failed : \A c \in failed : b <= c
    IN  CheckFrom(st, SubSeq(vector_ids, 1,
                             Min((first - 1) * LookupBatchSize, Len(vector_ids))),
                  {}, 1)
CheckIfExists(st, vector_ids, failed) == CheckFrom(st, vector_ids, failed, 1)

\* upsert_to_pinecone(): the batches handed to index.upsert(), in order:
\* vectors[i:i + batch_size] for i in range(0, len(vectors), batch_size);
\* batch_size None stands for the default BATCH_SIZE
UpsertCalls_dropTail(vectors_, batch_size) ==
    LET size == IF batch_size = None THEN UpsertBatchSize ELSE batch_size
    IN  [b \in 1..(Len(vectors_) \div size) |-> Batch(vectors_, b, size)]
UpsertCalls(vectors_, batch_size) ==
    LET size == IF batch_size = None THEN UpsertBatchSize ELSE batch_size
    IN  [b \in 1..NumBatches(Len(vectors_), size) |-> Batch(vectors_, b, size)]

\* index.upsert(vectors=batch): insert or replace by id, in order
RECURSIVE Upsert(_, _)
Upsert(st, batch) ==
    IF batch = <<>> THEN st
    ELSE Upsert({r \in st : r.id # Head(batch).id} \cup {Head(batch)}, Tail(batch))

-----------------------------------------------------------------------------
(* Enrichment: utils.analyze_sentiment, utils.generate_embedding, and the
   items the scrapers build *)

\* what the sentiment pipeline answers for a text: analyzer(text)[0]
AnalyzerResults == [label : {"POSITIVE", "NEGATIVE"}, score : 0..MaxScore]

\* analyze_sentiment(): the dict built from the analyzer's answer
AnalyzeSentiment_unsigned(result) ==
    [label |-> result.label, score |-> result.score, sentiment_value |-> result.score]
AnalyzeSentiment(result) ==
    [label           |-> result.label,
     score           |-> result.score,
     sentiment_value |-> IF result.label = "POSITIVE" THEN result.score
                         ELSE -result.score]

\* the sentiment fields create_reddit_metadata / create_pissedconsumer_metadata
\* copy from the item into the record's metadata
SentimentMetadata(item) ==
    [sentiment_score |-> item.sentiment.sentiment_value,
     sentiment_label |-> item.sentiment.label]

\* the text the source shows for an identifier (title and body of a post,
\* body of a comment, title and text of a review)
TextOf(sid) == "text of " \o sid

\* the sentiment pipeline is a fixed model: one answer per text
Analyzer(text) ==
    IF text = TextOf("a") THEN [label |-> "POSITIVE", score |-> MaxScore]
    ELSE [label |-> "NEGATIVE", score |-> MaxScore - 1]

\* generate_embedding(): the normalised vector of a text, one per text
GenerateEmbedding(text) == "e5:" \o text

\* post_data / comment_data / review_data: the dict a scraper appends for the
\* entry with identifier sid, sentiment included
Item(sid) ==
    [id        |-> sid,
     text      |-> TextOf(sid),
     sentiment |-> AnalyzeSentiment(Analyzer(TextOf(sid)))]

-----------------------------------------------------------------------------
(* utils.process_and_upload_to_pinecone: the pure parts *)

\* vector_ids = [generate_vector_id(item['id'], source_platform) for item ...]
VectorIds(data_items, platform) ==
    [i \in 1..Len(data_items) |-> GenerateVectorId(data_items[i].id, platform)]

\* new_items = [item for item in data_items if id(item) not in existing_ids_set]
NewItems_keepAll(data_items, platform, existing) == data_items
NewItems_rawId(data_items, platform, existing) ==
    SelectSeq(data_items, LAMBDA item : item.id \notin Range(existing))
NewItems(data_items, platform, existing) ==
    SelectSeq(data_items,
              LAMBDA item : GenerateVectorId(item.id, platform) \notin Range(existing))

\* the record appended to vectors for one item: id, values (the embedding)
\* and the metadata fields source_platform (config.SOURCE_PLATFORM),
\* source_identifier, sentiment_score, sentiment_label and text
MakeVector_embeddingOnly(item, platform) ==
    [id                |-> GenerateVectorId(item.id, platform),
     values            |-> GenerateEmbedding(item.text),
     source_platform   |-> platform,
     source_identifier |-> item.id,
     sentiment_score   |-> None,
     sentiment_label   |-> "UNKNOWN",
     text              |-> item.text]
MakeVector(item, platform) ==
    [id                |-> GenerateVectorId(item.id, platform),
     values            |-> GenerateEmbedding(item.text),
     source_platform   |-> platform,
     source_identifier |-> item.id,
     sentiment_score   |-> SentimentMetadata(item).sentiment_score,
     sentiment_label   |-> SentimentMetadata(item).sentiment_label,
     text              |-> item.text]

\* the for loop over new_items: the items at the positions in thrown raise in
\* generate_embedding or in the metadata creator and are skipped
RECURSIVE BuildFrom(_, _, _, _)
BuildFrom(items, platform, thrown, i) ==
    IF i > Len(items) THEN <<>>
    ELSE (IF i \in thrown THEN <<>> ELSE <<MakeVector(items[i], platform)>>)
         \o BuildFrom(items, platform, thrown, i + 1)

BuildVectors_keepThrown(items, platform, thrown) == BuildFrom(items, platform, {}, 1)
BuildVectors(items, platform, thrown) == BuildFrom(items, platform, thrown, 1)

-----------------------------------------------------------------------------
(* The fetchers: what decides the scan width *)

\* limit = 20 if last_timestamp is None else 100
PostLimit(last) == IF last = None THEN 20 ELSE 100

\* max_pages = 3 if last_timestamp is None else 10
MaxPages_swapped(last) == IF last = None THEN 10 ELSE 3
MaxPages(last) == IF last = None THEN 3 ELSE 10

\* the page loop of scrape_new_reviews() ends after this page: "if
\* new_reviews_on_page == 0: break", or range(1, max_pages + 1) is used up
LastPage_ignoresEmpty(found, page, ceiling) == page = ceiling
LastPage(found, page, ceiling) == found = 0 \/ page = ceiling

\* "if last_timestamp and timestamp <= last_timestamp: continue"
IsOld(last, timestamp) == last # None /\ timestamp <= last

\* what praw yields for one submission: its id, creation time, whether
\* scrape_submission keeps the post, the ids of the comments it keeps, and
\* the number of exceptions caught while scraping it (in the post before or
\* after it is appended, or in a comment)
Submissions ==
    {[id |-> i, created_utc |-> t, kept |-> FALSE, comments |-> <<>>, raised |-> e] :
        i \in SourceIds, t \in 1..MaxClock, e \in 0..1}
    \cup
    {[id |-> i, created_utc |-> t, kept |-> TRUE, comments |-> cs, raised |-> e] :
        i \in SourceIds, t \in 1..MaxClock, cs \in SeqUpTo(SourceIds, 1),
        e \in 0..1}

\* scrape_submission(): the post, then its comments; nothing for a post that
\* is skipped or whose scraping raises before the post is appended
ScrapeSubmission(submission) ==
    IF ~submission.kept THEN <<>>
    ELSE <<Item(submission.id)>>
         \o [j \in 1..Len(submission.comments) |-> Item(submission.comments[j])]

\* 'id': data_id or f"pc_{int(timestamp)}": data_id "" is a container without
\* the data-id attribute
ReviewId(data_id, timestamp) ==
    IF data_id = "" THEN "pc_" \o ToString(timestamp) ELSE data_id

\* one review container of a page: data-id, parsed timestamp, whether the
\* rest of the loop body reaches collected_items.append (title present, text
\* long enough), and whether it raises on the way (1) or not (0)
Containers ==
    {c \in [data_id : SourceIds, timestamp : 1..MaxClock, kept : BOOLEAN,
            raised : 0..1] : ~(c.kept /\ c.raised = 1)}

-----------------------------------------------------------------------------
(* Initial state *)

NoStats == [total_items_collected |-> 0, total_items_uploaded |-> 0, errors |-> 0]

\* keys the other scraper keeps in the same file (both default to
\* "last_scrape_state.json")
ForeignKeys(s) == IF s = "reddit" THEN {PCKey} ELSE Subreddits

InitFiles(s) ==
    {MissingFile,
     [exists |-> TRUE, parses |-> TRUE, content |-> [k \in ForeignKeys(s) |-> 1]]}

InitRun ==
    /\ pc = "idle"
    /\ state = EmptyDict
    /\ current_timestamp = None
    /\ last_timestamp = None
    /\ sub_i = 0
    /\ limit = 0
    /\ page_num = 0
    /\ max_pages = 0
    /\ left = 0
    /\ new_reviews_on_page = 0
    /\ all_data = <<>>
    /\ self_error_count = 0
    /\ existing_ids = <<>>
    /\ lookup_failed = FALSE
    /\ new_items = <<>>
    /\ error_count = 0
    /\ vectors = <<>>
    /\ batch_i = 0
    /\ stats = NoStats
    /\ writes = 0
    /\ saved = FALSE
    /\ store0 = store
    /\ file0 = file

\* no agent
NoAgent == root_agent = None /\ calls = <<>> /\ created = 0

\* no site content kept, no concurrent runs, no agent
NoTasks == source = <<>> /\ runs = <<>> /\ NoAgent

InitFn == fn = "none" /\ arg = <<>> /\ out = <<>> /\ NoTasks

Init ==
    /\ clock = 1
    /\ scraper \in Scrapers
    /\ file \in InitFiles(scraper)
    /\ store = {}
    /\ InitRun
    /\ InitFn

-----------------------------------------------------------------------------
(* Actions *)

\* time passes
Tick ==
    /\ clock < MaxClock
    /\ clock' = clock + 1
    /\ UNCHANGED <<file, store, runVars, fnVars,
                   taskVars>>

\* what main() does up to the first statement of the scrape loop:
\* __init__ (load_state) and the head of run()
BeginRun ==
    /\ pc \in {"idle", "done", "failed"}
    /\ state' = LoadState(file)
    /\ current_timestamp' = clock
    /\ stats' = NoStats
    /\ all_data' = <<>>
    /\ self_error_count' = 0
    /\ existing_ids' = <<>>
    /\ lookup_failed' = FALSE
    /\ new_items' = <<>>
    /\ error_count' = 0
    /\ vectors' = <<>>
    /\ batch_i' = 0
    /\ writes' = 0
    /\ saved' = FALSE
    /\ store0' = store
    /\ file0' = file
    /\ left' = 0
    /\ new_reviews_on_page' = 0
    /\ UNCHANGED <<clock, file, store, scraper, fnVars,
                   taskVars>>

StartReddit ==
    /\ scraper = "reddit"
    /\ BeginRun
    /\ pc' = "scrape_subreddits"
    /\ sub_i' = 1
    /\ last_timestamp' = None
    /\ limit' = 0
    /\ UNCHANGED <<page_num, max_pages>>

StartPissedConsumer ==
    /\ scraper = "pissedconsumer"
    /\ BeginRun
    /\ last_timestamp' = Get(LoadState(file), PCKey)
    /\ max_pages' = MaxPages(Get(LoadState(file), PCKey))
    /\ page_num' = 1
    /\ pc' = "scrape_pages"
    /\ UNCHANGED <<sub_i, limit>>

\* run() after the scrape loop: the statistics (the step that leads here has
\* set self_error_count'), then "if all_data:"
AfterFetch_alwaysSave(data) ==
    /\ stats' = [stats EXCEPT !.total_items_collected = Len(data),
                              !.errors = self_error_count']
    /\ pc' = IF data # <<>> THEN "dedup" ELSE "save"
AfterFetch(data) ==
    /\ stats' = [stats EXCEPT !.total_items_collected = Len(data),
                              !.errors = self_error_count']
    /\ pc' = IF data # <<>> THEN "dedup" ELSE "done"

\* the end of one iteration of "for subreddit_name in config.TARGET_SUBREDDITS"
EndSubreddit_onlyIfItems(data) ==
    /\ state' = IF data # <<>>
                THEN SetKey(state, TARGET_SUBREDDITS[sub_i], current_timestamp)
                ELSE state
    /\ left' = 0
    /\ IF sub_i = Len(TARGET_SUBREDDITS)
       THEN /\ sub_i' = 0
            /\ AfterFetch(data)
       ELSE /\ sub_i' = sub_i + 1
            /\ pc' = "scrape_subreddits"
            /\ UNCHANGED stats
EndSubreddit(data) ==
    /\ state' = SetKey(state, TARGET_SUBREDDITS[sub_i], current_timestamp)
    /\ left' = 0
    /\ IF sub_i = Len(TARGET_SUBREDDITS)
       THEN /\ sub_i' = 0
            /\ AfterFetch(data)
       ELSE /\ sub_i' = sub_i + 1
            /\ pc' = "scrape_subreddits"
            /\ UNCHANGED stats

\* scrape_new_posts() up to the listing: subreddit.new(limit=limit) answers
\* with n submissions (none when the request raises)
BeginSubredditOf(n) ==
    /\ pc = "scrape_subreddits"
    /\ UNCHANGED self_error_count
    /\ last_timestamp' = Get(state, TARGET_SUBREDDITS[sub_i])
    /\ limit' = PostLimit(Get(state, TARGET_SUBREDDITS[sub_i]))
    /\ n <= Min(limit', MaxItems)
    /\ IF n = 0
       THEN EndSubreddit(all_data)
       ELSE /\ left' = n
            /\ pc' = "scrape_posts"
            /\ UNCHANGED <<state, sub_i, stats>>
    /\ UNCHANGED <<clock, file, store, scraper, current_timestamp, page_num,
                   max_pages, new_reviews_on_page, all_data, existing_ids,
                   lookup_failed, new_items, error_count, vectors, batch_i,
                   writes, saved, store0, file0, fnVars,
                   taskVars>>

BeginSubreddit == \E n \in 0..MaxItems : BeginSubredditOf(n)

\* one iteration of "for submission in new_posts"
ScrapePostOf(submission) ==
    /\ pc = "scrape_posts"
    /\ LET old   == IsOld(last_timestamp, submission.created_utc)
           items == IF old THEN <<>> ELSE ScrapeSubmission(submission)
           data  == all_data \o items
           errs  == IF old THEN self_error_count
                    ELSE self_error_count + submission.raised
       IN  /\ Len(data) <= MaxItems
           /\ errs <= MaxErrors
           /\ self_error_count' = errs
           /\ all_data' = data
           /\ IF left = 1
              THEN EndSubreddit(data)
              ELSE /\ left' = left - 1
                   /\ UNCHANGED <<pc, state, sub_i, stats>>
    /\ UNCHANGED <<clock, file, store, scraper, current_timestamp,
                   last_timestamp, limit, page_num, max_pages,
                   new_reviews_on_page, existing_ids, lookup_failed, new_items,
                   error_count, vectors, batch_i, writes, saved, store0, file0, fnVars,
                   taskVars>>

ScrapePost == \E submission \in Submissions : ScrapePostOf(submission)

\* the listing raises while it is iterated: "except Exception" of
\* scrape_new_posts returns what was collected so far
ListingRaises ==
    /\ pc = "scrape_posts"
    /\ self_error_count < MaxErrors
    /\ self_error_count' = self_error_count + 1
    /\ EndSubreddit(all_data)
    /\ UNCHANGED <<clock, file, store, scraper, current_timestamp,
                   last_timestamp, limit, page_num, max_pages,
                   new_reviews_on_page, all_data, existing_ids, lookup_failed,
                   new_items, error_count, vectors, batch_i, writes, saved, store0,
                   file0, fnVars,
                   taskVars>>

\* scrape_new_reviews() leaves its page loop (break, or the range is used up)
EndPages(data) ==
    /\ page_num' = 0
    /\ max_pages' = 0
    /\ left' = 0
    /\ new_reviews_on_page' = 0
    /\ AfterFetch(data)

\* the request of one page: it raises (counted, break), or answers with n
\* containers (none: break)
PageRaises ==
    /\ pc = "scrape_pages"
    /\ self_error_count < MaxErrors
    /\ self_error_count' = self_error_count + 1
    /\ EndPages(all_data)
PageHolds(n) ==
    /\ pc = "scrape_pages"
    /\ UNCHANGED self_error_count
    /\ IF n = 0
       THEN EndPages(all_data)
       ELSE /\ left' = n
            /\ new_reviews_on_page' = 0
            /\ pc' = "scrape_reviews"
            /\ UNCHANGED <<page_num, max_pages, stats>>
FetchPageOf(n) ==
    /\ IF n < 0 THEN PageRaises ELSE PageHolds(n)
    /\ UNCHANGED <<clock, file, store, scraper, state, current_timestamp,
                   last_timestamp, sub_i, limit, all_data, existing_ids,
                   lookup_failed, new_items, error_count, vectors, batch_i,
                   writes, saved, store0, file0, fnVars,
                   taskVars>>

FetchPage == \E n \in (-1)..MaxItems : FetchPageOf(n)

\* one iteration of "for container in review_containers", and after the last
\* container of the page the end of the page iteration
ScrapeReviewOf(c) ==
    /\ pc = "scrape_reviews"
    /\ LET old   == IsOld(last_timestamp, c.timestamp)
           found == IF old THEN new_reviews_on_page ELSE new_reviews_on_page + 1
           data  == IF ~old /\ c.kept
                    THEN Append(all_data, Item(ReviewId(c.data_id, c.timestamp)))
                    ELSE all_data
           errs  == IF old THEN self_error_count
                    ELSE self_error_count + c.raised
       IN  /\ Len(data) <= MaxItems
           /\ errs <= MaxErrors
           /\ self_error_count' = errs
           /\ all_data' = data
           /\ IF left > 1
              THEN /\ left' = left - 1
                   /\ new_reviews_on_page' = found
                   /\ UNCHANGED <<pc, page_num, max_pages, stats>>
              ELSE IF LastPage(found, page_num, max_pages)
                   THEN EndPages(data)
                   ELSE /\ page_num' = page_num + 1
                        /\ left' = 0
                        /\ new_reviews_on_page' = found
                        /\ pc' = "scrape_pages"
                        /\ UNCHANGED <<max_pages, stats>>
    /\ UNCHANGED <<clock, file, store, scraper, state, current_timestamp,
                   last_timestamp, sub_i, limit, existing_ids, lookup_failed,
                   new_items, error_count, vectors, batch_i, writes, saved, store0,
                   file0, fnVars,
                   taskVars>>

ScrapeReview == \E c \in Containers : ScrapeReviewOf(c)

\* process_and_upload_to_pinecone() returns count without an upsert left to do
ReturnUploaded(count) ==
    /\ stats' = [stats EXCEPT !.total_items_uploaded = count]
    /\ pc' = "save"

\* process_and_upload_to_pinecone() up to "if not new_items": the existence
\* lookups (the fetch() of the batches in failed raise) and the filter
Dedup ==
    /\ pc = "dedup"
    /\ \E failed \in SUBSET (1..NumBatches(Len(all_data), LookupBatchSize)) :
          LET existing == CheckIfExists(store,
                              VectorIds(all_data, SourcePlatform(scraper)), failed)
              kept     == NewItems(all_data, SourcePlatform(scraper), existing)
          IN  /\ existing_ids' = existing
              /\ lookup_failed' = (failed # {})
              /\ new_items' = kept
              /\ IF kept = <<>>
                 THEN ReturnUploaded(0)
                 ELSE pc' = "enrich" /\ UNCHANGED stats
    /\ UNCHANGED <<clock, file, store, scraper, state, current_timestamp,
                   last_timestamp, sub_i, limit, page_num, max_pages, left,
                   new_reviews_on_page, all_data, self_error_count,
                   error_count, vectors, batch_i, writes, saved, store0, file0,
                   fnVars,
                   taskVars>>

\* the loop over new_items that embeds each item and builds its record
Enrich ==
    /\ pc = "enrich"
    /\ \E thrown \in SUBSET (1..Len(new_items)) :
          LET built == BuildVectors(new_items, SourcePlatform(scraper), thrown)
          IN  /\ vectors' = built
              /\ error_count' = Cardinality(thrown)
              /\ IF built = <<>>
                 THEN ReturnUploaded(0)
                 ELSE pc' = "upsert" /\ UNCHANGED stats
    /\ batch_i' = 0
    /\ UNCHANGED <<clock, file, store, scraper, state, current_timestamp,
                   last_timestamp, sub_i, limit, page_num, max_pages, left,
                   new_reviews_on_page, all_data, self_error_count,
                   existing_ids, lookup_failed, new_items, writes, saved, store0,
                   file0, fnVars,
                   taskVars>>

\* one iteration of the loop of upsert_to_pinecone(), and after the last one
\* the return of len(vectors)
UpsertBatch ==
    /\ pc = "upsert"
    /\ store' = Upsert(store, UpsertCalls(vectors, None)[batch_i \div UpsertBatchSize + 1])
    /\ batch_i' = batch_i + UpsertBatchSize
    /\ IF batch_i + UpsertBatchSize >= Len(vectors)
       THEN ReturnUploaded(Len(vectors))
       ELSE UNCHANGED <<pc, stats>>
    /\ UNCHANGED <<clock, file, scraper, state, current_timestamp,
                   last_timestamp, sub_i, limit, page_num, max_pages, left,
                   new_reviews_on_page, all_data, self_error_count,
                   existing_ids, lookup_failed, new_items, error_count, vectors,
                   writes, saved, store0, file0, fnVars,
                   taskVars>>

\* pc.Index() or index.upsert() raises: nothing in run() catches it, main()
\* re-raises and the process ends.  The index applies a batch as a whole: an
\* upsert that raises has written none of its records.
UploadRaises_swallowed ==
    /\ pc \in {"dedup", "upsert"}
    /\ IF pc = "upsert"
       THEN ReturnUploaded(Len(vectors))
       ELSE pc' = "failed" /\ UNCHANGED stats
    /\ UNCHANGED <<clock, file, store, scraper, state, current_timestamp,
                   last_timestamp, sub_i, limit, page_num, max_pages, left,
                   new_reviews_on_page, all_data, self_error_count,
                   existing_ids, lookup_failed, new_items, error_count, vectors,
                   batch_i, writes, saved, store0, file0, fnVars,
                   taskVars>>
UploadRaises_savesAnyway ==
    /\ pc \in {"dedup", "upsert"}
    /\ pc' = "save"
    /\ UNCHANGED <<clock, file, store, scraper, state, current_timestamp,
                   last_timestamp, sub_i, limit, page_num, max_pages, left,
                   new_reviews_on_page, all_data, self_error_count,
                   existing_ids, lookup_failed, new_items, error_count, vectors,
                   batch_i, stats, writes, saved, store0, file0, fnVars,
                   taskVars>>
UploadRaises ==
    /\ pc \in {"dedup", "upsert"}
    /\ pc' = "failed"
    /\ UNCHANGED <<clock, file, store, scraper, state, current_timestamp,
                   last_timestamp, sub_i, limit, page_num, max_pages, left,
                   new_reviews_on_page, all_data, self_error_count,
                   existing_ids, lookup_failed, new_items, error_count, vectors,
                   batch_i, stats, writes, saved, store0, file0, fnVars,
                   taskVars>>

\* the state the run hands to save_state(): the PissedConsumer run sets its
\* key here, the Reddit run has set its keys in the scrape loop
StateToSave_clockNow(s, d, now) ==
    IF s = "pissedconsumer" THEN SetKey(d, PCKey, clock) ELSE d
StateToSave(s, d, now) ==
    IF s = "pissedconsumer" THEN SetKey(d, PCKey, now) ELSE d

\* the end of the "if all_data:" branch: save_state(), which may fail
SaveCheckpoint ==
    /\ pc = "save"
    /\ state' = StateToSave(scraper, state, current_timestamp)
    /\ \E ok \in BOOLEAN : file' = SaveState(file, state', ok) /\ saved' = ok
    /\ writes' = writes + 1
    /\ pc' = "done"
    /\ UNCHANGED <<clock, store, scraper, current_timestamp, last_timestamp,
                   sub_i, limit, page_num, max_pages, left,
                   new_reviews_on_page, all_data, self_error_count,
                   existing_ids, lookup_failed, new_items, error_count, vectors,
                   batch_i, stats, store0, file0, fnVars,
                   taskVars>>

Next ==
    \/ Tick
    \/ StartReddit
    \/ StartPissedConsumer
    \/ BeginSubreddit
    \/ ScrapePost
    \/ ListingRaises
    \/ FetchPage
    \/ ScrapeReview
    \/ Dedup
    \/ Enrich
    \/ UpsertBatch
    \/ UploadRaises
    \/ SaveCheckpoint

Spec == Init /\ [][Next]_vars

-----------------------------------------------------------------------------
(* Runs that find no usable checkpoint file: the file is missing, or it holds
   text that json.load() rejects (a checkpoint for every key had been
   written to it). *)

InitCorrupt ==
    /\ clock = 1
    /\ scraper \in Scrapers
    /\ file \in {MissingFile, CorruptFile([k \in Subreddits \cup {PCKey} |-> 1])}
    /\ store = {}
    /\ InitRun
    /\ InitFn

SpecCorrupt == InitCorrupt /\ [][Next]_vars

-----------------------------------------------------------------------------
(* Two runs of the same source at the same time, from the point where each
   has collected its items: process_and_upload_to_pinecone() of run r reads
   and writes the one index while the other run does the same.  The index
   serves one fetch() or upsert() at a time.  runs[r].fails are the
   identifiers whose embedding or metadata raises in run r. *)

Runs == {1, 2}

\* a run holds at most MaxRunItems collected items here
MaxRunItems == 2

\* positions of items whose enrichment raises in a run with the given fails
ThrownAt(items, fails) == {i \in 1..Len(items) : items[i].id \in fails}

\* process_and_upload_to_pinecone() of one run with nothing else running
RunAlone(st, data_items, platform, fails) ==
    LET existing == CheckIfExists(st, VectorIds(data_items, platform), {})
        kept     == NewItems(data_items, platform, existing)
    IN  Upsert(st, BuildVectors(kept, platform, ThrownAt(kept, fails)))

RunLocals(data_items, fails) ==
    [pc           |-> IF data_items = <<>> THEN "done" ELSE "check_if_exists",
     data_items   |-> data_items,
     fails        |-> fails,
     lookup_b     |-> 1,
     existing_ids |-> <<>>,
     new_items    |-> <<>>,
     vectors      |-> <<>>,
     batch_i      |-> 0]

InitConcurrent ==
    /\ clock = 1
    /\ scraper \in Scrapers
    /\ file = MissingFile
    /\ store \in {{}, {MakeVector(Item("a"), SourcePlatform(scraper))}}
    /\ InitRun
    /\ fn = "none" /\ arg = <<>> /\ out = <<>>
    /\ source = <<>>
    /\ NoAgent
    /\ runs \in [Runs -> {RunLocals([i \in 1..Len(ids) |-> Item(ids[i])], fails) :
                             ids \in SeqUpTo(SourceIds, MaxRunItems),
                             fails \in SUBSET SourceIds}]

\* check_if_exists() of run r: one index.fetch() of the loop, which may
\* raise; after the last one the filter that builds new_items
LookupRun(r) ==
    /\ runs[r].pc = "check_if_exists"
    /\ LET me    == runs[r]
           vids  == VectorIds(me.data_items, SourcePlatform(scraper))
           batch == Batch(vids, me.lookup_b, LookupBatchSize)
       IN  \E raises \in BOOLEAN :
             LET existing == IF raises THEN me.existing_ids
                             ELSE me.existing_ids
                                    \o SetToSeq(Range(batch) \cap StoreIds(store))
                 kept     == NewItems(me.data_items, SourcePlatform(scraper), existing)
             IN  runs' = [runs EXCEPT ![r] =
                    IF me.lookup_b < NumBatches(Len(vids), LookupBatchSize)
                    THEN [me EXCEPT !.existing_ids = existing,
                                    !.lookup_b = me.lookup_b + 1]
                    ELSE [me EXCEPT !.existing_ids = existing,
                                    !.new_items = kept,
                                    !.pc = IF kept = <<>> THEN "done" ELSE "enrich"]]
    /\ UNCHANGED <<clock, file, store, runVars, fnVars, source, agentVars>>

\* the loop of run r that embeds each new item and builds its record
EnrichRun(r) ==
    /\ runs[r].pc = "enrich"
    /\ LET me    == runs[r]
           built == BuildVectors(me.new_items, SourcePlatform(scraper),
                                 ThrownAt(me.new_items, me.fails))
       IN  runs' = [runs EXCEPT ![r] =
                      [me EXCEPT !.vectors = built,
                                 !.pc = IF built = <<>> THEN "done" ELSE "upsert"]]
    /\ UNCHANGED <<clock, file, store, runVars, fnVars, source, agentVars>>

\* the index after the index.upsert() that a run with locals me does next:
\* the records of other ids stay, whoever wrote them
RunUpsert_dropsOthers(st, me) ==
    Range(UpsertCalls(me.vectors, None)[me.batch_i \div UpsertBatchSize + 1])
RunUpsert(st, me) ==
    Upsert(st, UpsertCalls(me.vectors, None)[me.batch_i \div UpsertBatchSize + 1])

\* one index.upsert(vectors=batch) of run r
UpsertRun(r) ==
    /\ runs[r].pc = "upsert"
    /\ LET me == runs[r]
       IN  /\ store' = RunUpsert(store, me)
           /\ runs' = [runs EXCEPT ![r] =
                 [me EXCEPT !.batch_i = me.batch_i + UpsertBatchSize,
                            !.pc = IF me.batch_i + UpsertBatchSize < Len(me.vectors)
                                   THEN "upsert" ELSE "done"]]
    /\ UNCHANGED <<clock, file, runVars, fnVars, source, agentVars>>

NextConcurrent == \E r \in Runs : LookupRun(r) \/ EnrichRun(r) \/ UpsertRun(r)

SpecConcurrent == InitConcurrent /\ [][NextConcurrent]_vars

-----------------------------------------------------------------------------
(* utils.retry_on_failure(func, max_retries, delay): arg holds max_retries and
   delay, out the position of the loop: attempt, the outcome of every func()
   call so far (a result, or FuncRaised), the seconds slept, and how the call
   ended.  func() always comes back, with a result or an exception. *)

\* max_retries is at most MaxRetries, delay at most MaxDelay
MaxRetries == 4
MaxDelay == 2

\* what a func() call can give: one of three results, or an exception
FuncResults == {1, 2, 3}
FuncRaised == -1

\* the except branch: what follows a func() call that raised in iteration
\* attempt of "for attempt in range(max_retries)"
AfterRaise_reraise(attempt, max_retries) ==
    IF attempt < max_retries - 1 THEN "sleep" ELSE "raise"
AfterRaise(attempt, max_retries) ==
    IF attempt < max_retries - 1 THEN "sleep" ELSE "return None"

InitRetry ==
    /\ clock = 1
    /\ scraper = "reddit"
    /\ file = MissingFile
    /\ store = {}
    /\ InitRun
    /\ NoTasks
    /\ fn = "call retry_on_failure"
    /\ arg \in [max_retries : 0..MaxRetries, delay : 0..MaxDelay]
    /\ out = [attempt |-> 0, log |-> <<>>, slept |-> 0, ended |-> "running",
              result |-> None]

\* one iteration of the for loop, or its end when range(max_retries) is
\* used up (the function then returns None implicitly)
RetryAttempt ==
    /\ fn = "call retry_on_failure"
    /\ IF out.attempt >= arg.max_retries
       THEN /\ out' = [out EXCEPT !.ended = "returned"]
            /\ fn' = "retry_on_failure"
       ELSE \/ \E r \in FuncResults :
                /\ out' = [out EXCEPT !.log = Append(@, r), !.ended = "returned",
                                      !.result = r]
                /\ fn' = "retry_on_failure"
            \/ LET then == AfterRaise(out.attempt, arg.max_retries)
               IN  IF then = "sleep"
                   THEN /\ out' = [out EXCEPT !.log = Append(@, FuncRaised),
                                              !.attempt = @ + 1,
                                              !.slept = @ + arg.delay]
                        /\ UNCHANGED fn
                   ELSE /\ out' = [out EXCEPT !.log = Append(@, FuncRaised),
                                              !.ended = IF then = "raise" THEN "raised"
                                                        ELSE "returned"]
                        /\ fn' = "retry_on_failure"
    /\ UNCHANGED <<arg, clock, file, store, runVars, taskVars>>

NextRetry == RetryAttempt

SpecRetry == InitRetry /\ [][NextRetry]_vars /\ WF_vars(RetryAttempt)

-----------------------------------------------------------------------------
(* scrape_new_reviews() on its own: PissedConsumer runs up to the end of the
   page loop, from no checkpoint or from a checkpoint of the past.  The loops
   are plain for loops and every request has a timeout, so a step that can
   be taken is taken. *)

InitPages ==
    /\ clock \in 1..MaxClock
    /\ scraper = "pissedconsumer"
    /\ file \in {MissingFile}
                \cup {[exists |-> TRUE, parses |-> TRUE,
                       content |-> [k \in {PCKey} |-> t]] : t \in 1..clock}
    /\ store = {}
    /\ InitRun
    /\ InitFn

NextPages == StartPissedConsumer \/ FetchPage \/ ScrapeReview

SpecPages ==
    InitPages /\ [][NextPages]_vars /\ WF_vars(FetchPage) /\ WF_vars(ScrapeReview)

-----------------------------------------------------------------------------
(* Pure helpers called on arbitrary inputs *)

\* (source_identifier, source_platform) arguments: the two platforms the
\* pipeline writes, and identifiers that contain the separator and the
\* platform names
WideSourceIds == {"a", "b", "a_b", "reddit_a", "pissedconsumer_a"}
IdArgs == [source_identifier : WideSourceIds, source_platform : Scrapers]

\* a dedup check: the items handed to process_and_upload_to_pinecone(), the
\* identifiers the index holds for the platform, and the lookups that raise
DedupArgs ==
    {a \in [ids    : SeqUpTo(SourceIds, MaxItems),
            stored : SUBSET SourceIds,
            failed : SUBSET (1..NumBatches(MaxItems, LookupBatchSize))] :
        a.failed \subseteq 1..NumBatches(Len(a.ids), LookupBatchSize)}

\* the items and the index of a dedup check
DedupItems(a) == [i \in 1..Len(a.ids) |-> Item(a.ids[i])]
DedupStore(a) == {MakeVector(Item(sid), "pissedconsumer") : sid \in a.stored}

\* arguments of upsert_to_pinecone(): lists long enough for two full batches
\* and a rest, and batch_size left out or given
UpsertArgs ==
    {[vectors    |-> [i \in 1..Len(ids) |-> MakeVector(Item(ids[i]), "reddit")],
      batch_size |-> size] :
        ids \in SeqUpTo(SourceIds, 2 * UpsertBatchSize + 1),
        size \in {None} \cup (1..(UpsertBatchSize + 1))}

\* --- the entry points the agent calls ---

\* what a call gave its caller: a result, or an exception
Returned(r) == [raised |-> FALSE, result |-> r]
Raised == [raised |-> TRUE, result |-> EmptyDict]

\* the tools call_tool() routes to, and the arguments it reads with
\* arguments["..."] rather than arguments.get("...")
ToolNames ==
    {"search_sentiment", "get_sentiment_summary", "compare_sentiment",
     "get_trending_topics", "fetch_recent_posts"}
RequiredArgs(name) ==
    CASE name = "search_sentiment"  -> {"query"}
      [] name = "compare_sentiment" -> {"period1_days", "period2_days"}
      [] OTHER                      -> {}

\* the dict a tool function returns when the index answers with n matches
ToolResult(name, n) ==
    CASE name = "search_sentiment" ->
           [query |-> "query", filters |-> "filters", count |-> n, matches |-> n]
      [] name = "get_sentiment_summary" ->
           [timeframe_days |-> 30, platform |-> "all", total_posts |-> n,
            positive_count |-> n, negative_count |-> 0,
            positive_percentage |-> IF n > 0 THEN 100 ELSE 0,
            negative_percentage |-> 0, average_sentiment_score |-> 0]
      [] name = "compare_sentiment" ->
           [platform |-> "all", period1 |-> n, period2 |-> n, changes |-> "stable"]
      [] name = "get_trending_topics" ->
           [platform |-> "all", timeframe_days |-> 7, total_posts_analyzed |-> n,
            trending_topics |-> n]
      [] OTHER ->
           [filters |-> "filters", count |-> n, posts |-> n]

\* call_tool(name, arguments): arguments is the set of argument names given,
\* store_fails says that the tool's index query raises
CallTool_unguarded(name, arguments, store_fails, n) ==
    IF name \notin ToolNames \/ ~(RequiredArgs(name) \subseteq arguments)
    THEN Returned([error |-> "error", tool |-> name, arguments |-> arguments])
    ELSE IF store_fails THEN Raised ELSE Returned(ToolResult(name, n))
CallTool(name, arguments, store_fails, n) ==
    IF name \notin ToolNames \/ ~(RequiredArgs(name) \subseteq arguments) \/ store_fails
    THEN Returned([error |-> "error", tool |-> name, arguments |-> arguments])
    ELSE Returned(ToolResult(name, n))

\* index_pinecone(): fails says that generate_embedding, get_pinecone_index
\* or index.query raises
IndexPinecone(fails, n) ==
    IF fails
    THEN Returned([status |-> "error", error_message |-> "Error querying Pinecone"])
    ELSE Returned([status |-> "success", product |-> "product", query |-> "query",
                   count |-> n, matches |-> n, sentiment_summary |-> n])

\* send_weekly_digest_email() in environment env.  What it gives back is
\* [call, queried, file_written, sends]: what the caller got, whether the
\* email_list table was asked for, whether the digest file was written,
\* and the number of resend.Emails.send() calls.
DigestError(msg, queried) ==
    [call |-> Returned([status |-> "error", error_message |-> msg]),
     queried |-> queried, file_written |-> FALSE, sends |-> 0]

\* "email_recipients = fetch_email_list_from_db()" with the fallback to
\* config.EMAIL_RECIPIENT: the number of recipients
Recipients(env) ==
    IF env.db > 0 THEN env.db ELSE IF env.EMAIL_RECIPIENT THEN 1 ELSE 0

\* "for recipient in email_recipients": one resend.Emails.send() per
\* recipient, its entry of email_results "success", or "error" where the send
\* raised (the recipients in rejected)
EmailResults_stopAtFailure(recipients, rejected) ==
    [r \in {x \in 1..recipients : \A y \in 1..(x - 1) : y \notin rejected} |->
        IF r \in rejected THEN "error" ELSE "success"]
EmailResults(recipients, rejected) ==
    [r \in 1..recipients |-> IF r \in rejected THEN "error" ELSE "success"]

\* [r for r in email_results if r.get("status") == status]
WithStatus(email_results, status) ==
    {r \in 1..Len(email_results) : email_results[r] = status}

\* from "resend.api_key = config.RESEND_API_KEY" on, with at least one recipient
SaveAndSend(env) ==
    IF env.save_to_file /\ ~env.write_ok
    THEN DigestError("Error sending email", TRUE)
    ELSE LET email_results    == EmailResults(Recipients(env), env.rejected)
             successful_sends == WithStatus(email_results, "success")
             failed_sends     == WithStatus(email_results, "error")
         IN  [call |-> Returned([status |-> IF successful_sends # {}
                                            THEN "success" ELSE "error",
                                 message |-> "Digest emailed",
                                 total_recipients |-> Recipients(env),
                                 successful_sends |-> Cardinality(successful_sends),
                                 failed_sends |-> Cardinality(failed_sends),
                                 email_results |-> email_results,
                                 filepath |-> env.save_to_file]),
              queried |-> TRUE,
              file_written |-> env.save_to_file,
              sends |-> Len(email_results)]

SendWeeklyDigestEmail_saveFirst(env) ==
    IF ~env.resend
    THEN DigestError("Resend library not installed", FALSE)
    ELSE IF ~(env.EMAIL_SENDER /\ env.RESEND_API_KEY)
         THEN DigestError("Email configuration incomplete", FALSE)
         ELSE IF Recipients(env) = 0
              THEN [DigestError("No email recipients found", TRUE)
                       EXCEPT !.file_written = env.save_to_file /\ env.write_ok]
              ELSE SaveAndSend(env)
SendWeeklyDigestEmail(env) ==
    IF ~env.resend
    THEN DigestError("Resend library not installed", FALSE)
    ELSE IF ~(env.EMAIL_SENDER /\ env.RESEND_API_KEY)
         THEN DigestError("Email configuration incomplete", FALSE)
         ELSE IF Recipients(env) = 0
              THEN DigestError("No email recipients found", TRUE)
              ELSE SaveAndSend(env)

\* --- the query tools: tools/analytics.py, tools/fetch.py ---

\* time.time() of a query, in days, and the days a stored record can be from
Now == 10
RecordDays == {2, 9}

\* the index holds at most MaxRecords records when a tool queries it
MaxRecords == 3
\* stands for top_k=10000 of get_sentiment_summary, scaled so that an index
\* of MaxRecords records can hold more matches than one query returns
SummaryTopK == 2

\* the metadata of the records an index can hold
StoredRecords ==
    [id : 1..MaxRecords, source_platform : {"reddit", "pissedconsumer"},
     timestamp : RecordDays, sentiment_label : {"POSITIVE", "NEGATIVE"}]
RECURSIVE IndexesWith(_)
IndexesWith(ids) ==
    IF ids = {} THEN {{}}
    ELSE LET i    == CHOOSE j \in ids : TRUE
             rest == IndexesWith(ids \ {i})
         IN  rest \cup {st \cup {x} : st \in rest,
                                      x \in {r \in StoredRecords : r.id = i}}
Indexes == IndexesWith(1..MaxRecords)

\* filter_dict: timestamp >= cutoff, and source_platform unless "all"
Matching(st, platform, timeframe_days) ==
    {r \in st : /\ r.timestamp >= Now - timeframe_days
                /\ platform = "all" \/ r.source_platform = platform}

\* index.query(vector, top_k, filter): the answers the index can give, any
\* top_k of the matching records when there are more
TopKOf(m, top_k) ==
    IF Cardinality(m) <= top_k THEN {m}
    ELSE {x \in SUBSET m : Cardinality(x) = top_k}
QueryResults(st, platform, timeframe_days, top_k) ==
    TopKOf(Matching(st, platform, timeframe_days), top_k)

\* a / b * 100 as an exact fraction (0 where the code says "else 0")
Percentage(a, b) == IF b > 0 THEN [num |-> 100 * a, den |-> b] ELSE [num |-> 0, den |-> 1]

\* get_sentiment_summary(): the aggregation over results.matches
GetSentimentSummary(matches, platform, timeframe_days) ==
    LET total_count    == Cardinality(matches)
        positive_count == Cardinality({r \in matches : r.sentiment_label = "POSITIVE"})
        negative_count == Cardinality({r \in matches : r.sentiment_label = "NEGATIVE"})
    IN  [timeframe_days      |-> timeframe_days,
         platform            |-> platform,
         total_posts         |-> total_count,
         positive_count      |-> positive_count,
         negative_count      |-> negative_count,
         positive_percentage |-> Percentage(positive_count, total_count),
         negative_percentage |-> Percentage(negative_count, total_count)]

\* datetime.fromtimestamp(t).isoformat() of day t: the digits, zero-padded,
\* and the order Python gives strings
IsoFormat(t) == <<t \div 10, t % 10>>
StrLess(a, b) ==
    \/ \E i \in 1..Min(Len(a), Len(b)) :
          /\ \A j \in 1..(i - 1) : a[j] = b[j]
          /\ a[i] < b[i]
    \/ /\ Len(a) < Len(b)
       /\ \A j \in 1..Len(a) : a[j] = b[j]

Abs(x) == IF x < 0 THEN -x ELSE x

\* the records fetch_recent_posts() can find: Reddit posts and comments and
\* PissedConsumer reviews, of three days, with the signed score of their label
PostIds == {1, 2}
PostDays == {2, 9, 10}
PostKinds ==
    {[source_platform |-> "reddit", post_type |-> "post"],
     [source_platform |-> "reddit", post_type |-> "comment"],
     [source_platform |-> "pissedconsumer", post_type |-> "review"]}
StoredPosts(i) ==
    {[source_identifier |-> i,
      source_platform   |-> k.source_platform,
      post_type         |-> k.post_type,
      timestamp         |-> t,
      datetime          |-> IsoFormat(t),
      sentiment_label   |-> l,
      sentiment_score   |-> IF l = "POSITIVE" THEN i ELSE -i,
      upvotes           |-> u] :
        k \in PostKinds, t \in PostDays, l \in {"POSITIVE", "NEGATIVE"},
        u \in {0, 5}}
\* an index holds at most one record per identifier
RECURSIVE IndexesOver(_)
IndexesOver(ids) ==
    IF ids = {} THEN {{}}
    ELSE LET i    == CHOOSE j \in ids : TRUE
             rest == IndexesOver(ids \ {i})
         IN  rest \cup {st \cup {x} : st \in rest, x \in StoredPosts(i)}
PostIndexes == IndexesOver(PostIds)

\* filter_dict of fetch_recent_posts()
FetchMatching(st, platform, sentiment, post_type, timeframe_days) ==
    {r \in st :
        /\ r.timestamp >= Now - timeframe_days
        /\ platform = "all" \/ r.source_platform = platform
        /\ sentiment = "positive" => r.sentiment_label = "POSITIVE"
        /\ sentiment = "negative" => r.sentiment_label = "NEGATIVE"
        /\ post_type = "" \/ r.post_type = post_type}

\* the dict appended to posts for a match
PostOf(metadata) ==
    [sentiment_score |-> metadata.sentiment_score,
     sentiment_label |-> metadata.sentiment_label,
     platform        |-> metadata.source_platform,
     post_type       |-> metadata.post_type,
     timestamp       |-> metadata.datetime,
     upvotes         |-> metadata.upvotes,
     source_id       |-> metadata.source_identifier]

\* x may stand before y after posts.sort(key=..., reverse=True)
NotBelow_signedScore(x, y, sort_by) ==
    CASE sort_by = "timestamp"       -> ~StrLess(x.timestamp, y.timestamp)
      [] sort_by = "sentiment_score" -> x.sentiment_score >= y.sentiment_score
      [] OTHER                       -> x.upvotes >= y.upvotes
NotBelow(x, y, sort_by) ==
    CASE sort_by = "timestamp"       -> ~StrLess(x.timestamp, y.timestamp)
      [] sort_by = "sentiment_score" -> Abs(x.sentiment_score) >= Abs(y.sentiment_score)
      [] OTHER                       -> x.upvotes >= y.upvotes

\* the lists posts can be after the sort: the matches come in the order the
\* index chose, the sort is stable
SortedPosts(matches, sort_by) ==
    {ps \in SeqUpTo({PostOf(m) : m \in matches}, Cardinality(matches)) :
        /\ Len(ps) = Cardinality(matches)
        /\ Range(ps) = {PostOf(m) : m \in matches}
        /\ \A i \in 1..(Len(ps) - 1) : NotBelow(ps[i], ps[i + 1], sort_by)}

\* posts[:limit] and the dict returned
FetchRecentPosts(posts, a) ==
    LET kept == SubSeq(posts, 1, Min(a.limit, Len(posts)))
    IN  [filters |-> [platform |-> a.platform, sentiment |-> a.sentiment,
                      timeframe_days |-> a.timeframe_days,
                      post_type |-> a.post_type, sort_by |-> a.sort_by],
         count   |-> Len(kept),
         posts   |-> kept]

\* post_type "" stands for no post_type given ("if post_type:" is false)
FetchCalls ==
    [index : PostIndexes, platform : {"all", "reddit"},
     sentiment : {"all", "positive", "negative"}, timeframe_days : {7},
     post_type : {"", "post"}, limit : {1, 2},
     sort_by : {"timestamp", "sentiment_score", "upvotes"}]

SummaryCalls ==
    [index : Indexes, platform : {"all", "reddit", "pissedconsumer"},
     timeframe_days : {7, 30}]

\* the environments and arguments of the calls
MaxRecipients == 2
ToolCalls ==
    [name : ToolNames \cup {"unknown_tool"},
     arguments : {{}, {"query"}, {"period1_days", "period2_days"}},
     store_fails : BOOLEAN,
     n : 0..1]
IndexCalls == [fails : BOOLEAN, n : 0..1]
DigestCalls ==
    [resend : BOOLEAN, EMAIL_SENDER : BOOLEAN, RESEND_API_KEY : BOOLEAN,
     db : 0..MaxRecipients, EMAIL_RECIPIENT : BOOLEAN, save_to_file : BOOLEAN,
     write_ok : BOOLEAN, rejected : SUBSET (1..MaxRecipients)]

InitCalls ==
    /\ clock = 1
    /\ scraper = "reddit"
    /\ file = MissingFile
    /\ store = {}
    /\ InitRun
    /\ out = <<>>
    /\ NoTasks
    /\ \/ fn = "call analyze_sentiment" /\ arg \in AnalyzerResults
       \/ fn = "call generate_vector_id" /\ arg \in IdArgs \X IdArgs
       \/ fn = "call upsert_to_pinecone" /\ arg \in UpsertArgs
       \/ fn = "call check_if_exists" /\ arg \in DedupArgs
       \/ fn = "call call_tool" /\ arg \in ToolCalls
       \/ fn = "call index_pinecone" /\ arg \in IndexCalls
       \/ fn = "call send_weekly_digest_email" /\ arg \in DigestCalls
       \/ fn = "call get_sentiment_summary" /\ arg \in SummaryCalls

\* analyze_sentiment(text) returns, and the metadata creator copies the result
ReturnAnalyzeSentiment ==
    /\ fn = "call analyze_sentiment"
    /\ fn' = "analyze_sentiment"
    /\ out' = [sentiment |-> AnalyzeSentiment(arg),
               metadata  |-> SentimentMetadata([sentiment |-> AnalyzeSentiment(arg)])]
    /\ UNCHANGED <<arg, clock, file, store, runVars, taskVars>>

\* generate_vector_id() returns for each of two argument pairs
ReturnGenerateVectorId ==
    /\ fn = "call generate_vector_id"
    /\ fn' = "generate_vector_id"
    /\ out' = [i \in 1..2 |->
                 GenerateVectorId(arg[i].source_identifier, arg[i].source_platform)]
    /\ UNCHANGED <<arg, clock, file, store, runVars, taskVars>>

\* upsert_to_pinecone() returns; out lists the index.upsert() calls it made
ReturnUpsertToPinecone ==
    /\ fn = "call upsert_to_pinecone"
    /\ fn' = "upsert_to_pinecone"
    /\ out' = UpsertCalls(arg.vectors, arg.batch_size)
    /\ UNCHANGED <<arg, clock, file, store, runVars, taskVars>>

\* process_and_upload_to_pinecone() up to its filter: check_if_exists()
\* returns, and new_items is built from what it returned
ReturnCheckIfExists ==
    /\ fn = "call check_if_exists"
    /\ fn' = "check_if_exists"
    /\ LET vids     == VectorIds(DedupItems(arg), "pissedconsumer")
           existing == CheckIfExists(DedupStore(arg), vids, arg.failed)
       IN  out' = [lookups      |-> LookupCalls(vids),
                   existing_ids |-> existing,
                   new_items    |-> NewItems(DedupItems(arg), "pissedconsumer",
                                             existing)]
    /\ UNCHANGED <<arg, clock, file, store, runVars, taskVars>>

\* call_tool() hands its answer to the MCP server
ReturnCallTool ==
    /\ fn = "call call_tool"
    /\ fn' = "call_tool"
    /\ out' = CallTool(arg.name, arg.arguments, arg.store_fails, arg.n)
    /\ UNCHANGED <<arg, clock, file, store, runVars, taskVars>>

\* index_pinecone() hands its answer to the agent
ReturnIndexPinecone ==
    /\ fn = "call index_pinecone"
    /\ fn' = "index_pinecone"
    /\ out' = IndexPinecone(arg.fails, arg.n)
    /\ UNCHANGED <<arg, clock, file, store, runVars, taskVars>>

\* send_weekly_digest_email() hands its answer to the agent
ReturnSendWeeklyDigestEmail ==
    /\ fn = "call send_weekly_digest_email"
    /\ fn' = "send_weekly_digest_email"
    /\ out' = SendWeeklyDigestEmail(arg)
    /\ UNCHANGED <<arg, clock, file, store, runVars, taskVars>>

\* get_sentiment_summary() returns what it aggregated from one query
ReturnGetSentimentSummary ==
    /\ fn = "call get_sentiment_summary"
    /\ fn' = "get_sentiment_summary"
    /\ \E matches \in QueryResults(arg.index, arg.platform, arg.timeframe_days,
                                    SummaryTopK) :
          out' = GetSentimentSummary(matches, arg.platform, arg.timeframe_days)
    /\ UNCHANGED <<arg, clock, file, store, runVars, taskVars>>

\* fetch_recent_posts() returns: one query with top_k = min(limit * 2,
\* 10000), the sort, the cut to limit
ReturnFetchRecentPosts ==
    /\ fn = "call fetch_recent_posts"
    /\ fn' = "fetch_recent_posts"
    /\ \E matches \in TopKOf(FetchMatching(arg.index, arg.platform, arg.sentiment,
                                           arg.post_type, arg.timeframe_days),
                             Min(arg.limit * 2, 10000)) :
          \E posts \in SortedPosts(matches, arg.sort_by) :
             out' = FetchRecentPosts(posts, arg)
    /\ UNCHANGED <<arg, clock, file, store, runVars, taskVars>>

\* fetch_recent_posts() called on its own
InitFetch ==
    /\ clock = 1
    /\ scraper = "reddit"
    /\ file = MissingFile
    /\ store = {}
    /\ InitRun
    /\ out = <<>>
    /\ NoTasks
    /\ fn = "call fetch_recent_posts"
    /\ arg \in FetchCalls

NextFetch == ReturnFetchRecentPosts

SpecFetch == InitFetch /\ [][NextFetch]_vars

NextCalls ==
    \/ ReturnAnalyzeSentiment
    \/ ReturnGenerateVectorId
    \/ ReturnUpsertToPinecone
    \/ ReturnCheckIfExists
    \/ ReturnCallTool
    \/ ReturnIndexPinecone
    \/ ReturnSendWeeklyDigestEmail
    \/ ReturnGetSentimentSummary

SpecCalls == InitCalls /\ [][NextCalls]_vars

-----------------------------------------------------------------------------
(* Successive runs against a site that does not change: source holds what the
   site serves, a PissedConsumer source as its pages of reviews, a Reddit
   source as the listing of each target subreddit, newest first.  The runs
   start without a checkpoint file and with an empty index; the index and the
   state file are healthy (no lookup, embedding or write fails), a request to
   the site may raise. *)

MaxSourcePages == 4

\* the data-id of the review on page p, where the container carries one
ReviewIds == [p \in 1..MaxSourcePages |-> "review-" \o ToString(p)]

\* a date no format of parse_review_date accepts, or no <time> element
Unparseable == 0

\* parse_review_date(date_str), and "timestamp = time.time()" without a
\* <time> element: the time of the call where the date cannot be read
ParseReviewDate(date_str, now) == IF date_str = Unparseable THEN now ELSE date_str

\* the container the page shows for a review: title present, text long enough
ContainerOf(review, now) ==
    [data_id   |-> review.data_id,
     timestamp |-> ParseReviewDate(review.date, now),
     kept      |-> TRUE,
     raised    |-> 0]

\* sites of up to MaxSourcePages pages of one review each; the set without
\* lists the pages whose review has no data-id, the set undated the pages
\* whose review has no readable date; the readable dates are the time of the
\* first run
ReviewPages ==
    UNION {{[p \in 1..n |->
               <<[data_id |-> IF p \in without THEN "" ELSE ReviewIds[p],
                  date    |-> IF p \in undated THEN Unparseable ELSE 1]>>] :
              without \in SUBSET (1..n), undated \in SUBSET (1..n)} :
           n \in 0..MaxSourcePages}

\* the posts of the listings: kept, without comments, created at the time of
\* the first run
PostOfListing(i) ==
    [id |-> i, created_utc |-> 1, kept |-> TRUE, comments |-> <<>>, raised |-> 0]

Listings ==
    {<<l1, l2>> : l1 \in {<<>>, <<PostOfListing("a")>>},
                  l2 \in {<<>>, <<PostOfListing("b")>>,
                          <<PostOfListing("b"), PostOfListing("c")>>}}

InitSource ==
    /\ clock = 1
    /\ scraper \in Scrapers
    /\ file = MissingFile
    /\ store = {}
    /\ InitRun
    /\ fn = "none" /\ arg = <<>> /\ out = <<>>
    /\ runs = <<>>
    /\ NoAgent
    /\ source \in IF scraper = "pissedconsumer" THEN ReviewPages ELSE Listings

\* the request of page page_num: it raises, or it answers with the page
SourcePage ==
    /\ pc = "scrape_pages"
    /\ \/ FetchPageOf(-1)
       \/ FetchPageOf(IF page_num <= Len(source)
                      THEN Len(source[page_num]) ELSE 0)

\* the next container of the page
SourceReview ==
    /\ pc = "scrape_reviews"
    /\ ScrapeReviewOf(ContainerOf(
           source[page_num][Len(source[page_num]) - left + 1], clock))

\* subreddit.new(limit=limit) of the subreddit in turn
SourceListing ==
    /\ pc = "scrape_subreddits"
    /\ BeginSubredditOf(Len(source[sub_i]))

\* the next submission of the listing
SourcePost ==
    /\ pc = "scrape_posts"
    /\ ScrapePostOf(source[sub_i][Len(source[sub_i]) - left + 1])

\* the index answers every lookup, every item is embedded, the state file is
\* written
HealthyDedup == Dedup /\ ~lookup_failed'
HealthyEnrich == Enrich /\ error_count' = 0
HealthySave == SaveCheckpoint /\ saved'

NextSource ==
    \/ Tick
    \/ StartReddit
    \/ StartPissedConsumer
    \/ SourceListing
    \/ SourcePost
    \/ ListingRaises
    \/ SourcePage
    \/ SourceReview
    \/ HealthyDedup
    \/ HealthyEnrich
    \/ UpsertBatch
    \/ HealthySave

SpecSource == InitSource /\ [][NextSource]_vars

-----------------------------------------------------------------------------
(* wheel0/agent.py: init_agent() coroutines on one event loop, and get_agent().
   A coroutine runs without interruption from one await to the next: the test
   "root_agent is None" and the start of create_agent() are one step, the
   await of MCPToolset.from_server() inside create_agent() hands the loop to
   the other coroutines, and the assignment of root_agent with the return is
   the step that follows it.  calls[c] is the coroutine of caller c, created
   counts the agents create_agent() has built, an agent is named by its
   number; out is the outcome of the last get_agent(). *)

MaxCallers == 3

Callers == 1..MaxCallers

NotCalled == [pc |-> "idle", result |-> None]

InitAgent ==
    /\ clock = 1
    /\ scraper = "reddit"
    /\ file = MissingFile
    /\ store = {}
    /\ InitRun
    /\ fn = "none" /\ arg = <<>> /\ out = <<>>
    /\ source = <<>>
    /\ runs = <<>>
    /\ root_agent = None
    /\ calls = [c \in Callers |-> NotCalled]
    /\ created = 0

\* init_agent() up to its first await, or to its return where the agent
\* exists; a caller whose call has ended may call again
CallInitAgent(c) ==
    /\ calls[c].pc \in {"idle", "returned", "raised"}
    /\ calls' = [calls EXCEPT ![c] =
                    IF root_agent = None
                    THEN [pc |-> "awaiting", result |-> None]
                    ELSE [pc |-> "returned", result |-> root_agent]]
    /\ UNCHANGED <<root_agent, created>>
    /\ UNCHANGED <<clock, file, store, runVars, fnVars, source, runs>>

\* create_agent() returns to the init_agent() that awaits it: the new agent
\* is assigned to root_agent and returned
CreateAgentReturns(c) ==
    /\ calls[c].pc = "awaiting"
    /\ created' = created + 1
    /\ root_agent' = created + 1
    /\ calls' = [calls EXCEPT ![c] = [pc |-> "returned", result |-> created + 1]]
    /\ UNCHANGED <<clock, file, store, runVars, fnVars, source, runs>>

\* MCPToolset.from_server() raises (the server does not start): init_agent()
\* raises and root_agent is left as it is
CreateAgentRaises(c) ==
    /\ calls[c].pc = "awaiting"
    /\ calls' = [calls EXCEPT ![c] = [pc |-> "raised", result |-> None]]
    /\ UNCHANGED <<root_agent, created>>
    /\ UNCHANGED <<clock, file, store, runVars, fnVars, source, runs>>

\* get_agent(): RuntimeError while root_agent is None; completed records for
\* the outcome whether an init_agent() had returned when it was called
GetAgent ==
    /\ fn' = "get_agent"
    /\ out' = [raised    |-> root_agent = None,
               agent     |-> root_agent,
               completed |-> \E c \in Callers : calls[c].pc = "returned"]
    /\ UNCHANGED <<clock, file, store, runVars, arg, taskVars>>

NextAgent ==
    \/ \E c \in Callers : CallInitAgent(c)
    \/ \E c \in Callers : CreateAgentReturns(c)
    \/ \E c \in Callers : CreateAgentRaises(c)
    \/ GetAgent

SpecAgent == InitAgent /\ [][NextAgent]_vars

-----------------------------------------------------------------------------
(* Properties *)

\* what the caller of an entry point got
Answer ==
    IF fn = "send_weekly_digest_email" THEN out.call ELSE out

EntryPoints == {"call_tool", "index_pinecone", "send_weekly_digest_email"}

\* {"status": "success" | "error", ...} with error_message on error
StatusResult(r) ==
    /\ "status" \in DOMAIN r
    /\ r.status \in {"success", "error"}
    /\ r.status = "error" => "error_message" \in DOMAIN r

\* send_weekly_digest_email(arg) lacks a credential or has no recipient
NoCredentials == ~(arg.EMAIL_SENDER /\ arg.RESEND_API_KEY)
NoRecipient == arg.db = 0 /\ ~arg.EMAIL_RECIPIENT

\* the keys a scraper's run sets: every configured subreddit, or the single
\* PissedConsumer key
OwnKeys(s) == IF s = "reddit" THEN Subreddits ELSE {PCKey}

\* process_and_upload_to_pinecone() of the current run is past its filter
Deduped == pc \in {"enrich", "upsert", "save"} \/ (pc = "done" /\ all_data # <<>>)

\* the records of the index that stand for one feedback item
RecordsOf(st, platform, sid) ==
    {r \in st : r.source_platform = platform /\ r.source_identifier = sid}

\* number of collected items whose vector id is in the set ids
CollectedWithIdIn(ids) ==
    Cardinality({i \in 1..Len(all_data) :
                    GenerateVectorId(all_data[i].id, SourcePlatform(scraper)) \in ids})

\* the items analyze_sentiment() has scored in this run: the scrapers score
\* an entry right before they append it
SentimentScored == Range(all_data)

\* the items generate_embedding() has been called for in this run: every
\* new item, once the loop over new_items has run
EmbeddedItems ==
    IF vectors # <<>> \/ error_count > 0 THEN Range(new_items) ELSE {}

\* the concatenation of a sequence of sequences
RECURSIVE Concat(_)
Concat(seqs) == IF seqs = <<>> THEN <<>> ELSE Head(seqs) \o Concat(Tail(seqs))

\* collected items whose vector id was in the index when the run started
AlreadyStored == CollectedWithIdIn(StoreIds(store0))

\* collected items whose vector id check_if_exists reported
ReportedExisting == CollectedWithIdIn(Range(existing_ids))

C2_Original ==
    /\ writes <= 1
    /\ writes = 1 =>
          /\ pc = "done"
          /\ stats.total_items_uploaded >= 1
          /\ \A k \in OwnKeys(scraper) : Get(state, k) = current_timestamp

\* C2 (amended): save_state() is called at most once per run, at the end of
\* the run, only if the run collected at least one item (whether or not any
\* item was uploaded), and the value handed to it and persisted for each of
\* the run's keys is the timestamp captured at run start; the file changes
\* only by that call.
C2_WrittenOnceAtEndWithStartTime ==
    /\ writes <= 1
    /\ writes = 1 =>
          /\ pc = "done"
          /\ stats.total_items_collected >= 1
          /\ \A k \in OwnKeys(scraper) : Get(state, k) = current_timestamp
          /\ saved => \A k \in OwnKeys(scraper) :
                         Checkpoint(file, k) = current_timestamp
    /\ (writes = 0 \/ ~saved) => file = file0

\* the checkpoint was written by a run that uploaded nothing, after the
\* clock had moved past the run's start
C2_Witness ==
    /\ writes = 1
    /\ saved
    /\ stats.total_items_uploaded = 0
    /\ clock > current_timestamp
    /\ file # file0

\* C3 as stated: after a Reddit run completes, every configured subreddit's
\* persisted checkpoint equals the run's start time, whatever was found.
C3_Original ==
    (scraper = "reddit" /\ pc = "done") =>
        \A sub \in Subreddits : Checkpoint(file, sub) = current_timestamp

\* C3 (amended): after a Reddit run completes, self.state holds the run's
\* start time for every configured subreddit whatever was found; the
\* persisted checkpoints equal it when the run as a whole collected at least
\* one item and save_state() succeeded, regardless of whether that subreddit
\* had items; a run that collected nothing leaves the file as it was.
C3_SubredditCheckpointsAtRunStart ==
    (scraper = "reddit" /\ pc = "done") =>
        /\ \A sub \in Subreddits : Get(state, sub) = current_timestamp
        /\ (stats.total_items_collected >= 1 /\ saved) =>
              \A sub \in Subreddits : Checkpoint(file, sub) = current_timestamp
        /\ stats.total_items_collected = 0 => (file = file0 /\ writes = 0)

\* a Reddit run with a single item, so that one of the two subreddits had
\* none, persisted its start time for both, over older checkpoints
C3_Witness ==
    /\ scraper = "reddit"
    /\ pc = "done"
    /\ saved
    /\ Len(all_data) = 1
    /\ \A sub \in Subreddits :
          /\ Checkpoint(file0, sub) \notin {None, current_timestamp}
          /\ Checkpoint(file, sub) = current_timestamp

\* C4 as stated: a PissedConsumer run that finds no new item still advances
\* the persisted checkpoint to the time of the run.
C4_Original ==
    (scraper = "pissedconsumer" /\ pc = "done" /\ stats.total_items_collected = 0) =>
        Checkpoint(file, PCKey) >= current_timestamp

\* C4 (amended): a PissedConsumer run that collects no item does not call
\* save_state() and leaves the persisted checkpoint unchanged, so the next
\* run scans from the same checkpoint again; the checkpoint advances, to the
\* run's start time, only in a run that collected at least one item.
C4_EmptyRunKeepsCheckpoint ==
    (scraper = "pissedconsumer" /\ pc = "done") =>
        /\ stats.total_items_collected = 0 =>
              (writes = 0 /\ file = file0 /\ state = LoadState(file0))
        /\ Checkpoint(file, PCKey) # Checkpoint(file0, PCKey) =>
              /\ stats.total_items_collected >= 1
              /\ Checkpoint(file, PCKey) = current_timestamp

\* an incremental PissedConsumer run found nothing and ended with the
\* checkpoint still older than its start
C4_Witness ==
    /\ scraper = "pissedconsumer"
    /\ pc = "done"
    /\ stats.total_items_collected = 0
    /\ Checkpoint(file, PCKey) # None
    /\ Checkpoint(file, PCKey) < current_timestamp

\* C5 as stated: the filter drops exactly the items whose vector id is in the
\* index, and the number of items kept is the input count minus the number
\* of ids check_if_exists returned.
C5_Original ==
    Deduped =>
        /\ new_items = SelectSeq(all_data,
               LAMBDA item : GenerateVectorId(item.id, SourcePlatform(scraper))
                                 \notin StoreIds(store0))
        /\ Len(new_items) = Len(all_data) - Len(existing_ids)

\* C5 (amended): the filter drops exactly the items whose vector id is among
\* the ids check_if_exists returned; those are ids of the index, and all of
\* the input's ids that are in the index when no lookup failed.  The number
\* of items kept is the input count minus the number of input items with a
\* returned id, which is the input count minus the number of returned ids
\* when the input ids are pairwise different.
C5_DedupFiltersReportedIds ==
    Deduped =>
        LET vids == VectorIds(all_data, SourcePlatform(scraper))
        IN  /\ new_items = SelectSeq(all_data,
                   LAMBDA item : GenerateVectorId(item.id, SourcePlatform(scraper))
                                     \notin Range(existing_ids))
            /\ Range(existing_ids) \subseteq Range(vids) \cap StoreIds(store0)
            /\ ~lookup_failed =>
                  /\ Range(existing_ids) = Range(vids) \cap StoreIds(store0)
                  /\ new_items = SelectSeq(all_data,
                         LAMBDA item : GenerateVectorId(item.id, SourcePlatform(scraper))
                                           \notin StoreIds(store0))
            /\ Len(new_items) = Len(all_data) - ReportedExisting
            /\ Cardinality(Range(vids)) = Len(vids) =>
                  Len(new_items) = Len(all_data) - Len(existing_ids)

\* two collected items share an id that the index holds; one lookup reported
\* it once and the filter dropped both
C5_Witness ==
    /\ Deduped
    /\ ~lookup_failed
    /\ Len(existing_ids) = 1
    /\ \E i, j \in 1..Len(all_data) :
          /\ i < j
          /\ all_data[i] = all_data[j]
          /\ GenerateVectorId(all_data[i].id, SourcePlatform(scraper))
                 \in Range(existing_ids)
    /\ Len(new_items) = Len(all_data) - 2

\* C6: the index never holds more than one record for a feedback item
\* (source_platform, source_identifier), and once an upload has completed
\* every item it uploaded has exactly one record, also when the item was
\* uploaded twice in the run or was in the index before the run.
C6_OneRecordPerItem ==
    /\ \A p \in Scrapers, sid \in SourceIds :
          Cardinality(RecordsOf(store, p, sid)) <= 1
    /\ (pc \in {"save", "done"} /\ stats.total_items_uploaded >= 1) =>
          \A i \in 1..Len(vectors) :
             Cardinality(RecordsOf(store, vectors[i].source_platform,
                                   vectors[i].source_identifier)) = 1

\* a finished run upserted the same item twice, and the item was in the
\* index already from an earlier run
C6_Witness ==
    /\ pc = "done"
    /\ stats.total_items_uploaded >= 2
    /\ \E i, j \in 1..Len(vectors) :
          /\ i < j
          /\ vectors[i].source_identifier = vectors[j].source_identifier
          /\ RecordsOf(store0, vectors[i].source_platform,
                       vectors[i].source_identifier) # {}

C7_VectorIdSeparatesPlatforms ==
    fn = "generate_vector_id" =>
        /\ arg[1] = arg[2] => out[1] = out[2]
        /\ arg[1].source_platform # arg[2].source_platform => out[1] # out[2]

\* the same identifier on the two platforms got two ids
C7_Witness ==
    /\ fn = "generate_vector_id"
    /\ arg[1].source_identifier = arg[2].source_identifier
    /\ arg[1].source_platform # arg[2].source_platform
    /\ out[1] # out[2]

\* C8: in every result of analyze_sentiment, label POSITIVE comes with
\* sentiment_value = score >= 0 and label NEGATIVE with
\* sentiment_value = -score <= 0, and the record metadata built from the
\* result carries that label and that value.
C8_SentimentSignMatchesLabel ==
    fn = "analyze_sentiment" =>
        /\ out.sentiment.label = arg.label
        /\ out.sentiment.label = "POSITIVE" =>
              (out.sentiment.sentiment_value = arg.score
               /\ out.sentiment.sentiment_value >= 0)
        /\ out.sentiment.label = "NEGATIVE" =>
              (out.sentiment.sentiment_value = -arg.score
               /\ out.sentiment.sentiment_value <= 0)
        /\ out.metadata.sentiment_label = out.sentiment.label
        /\ out.metadata.sentiment_score = out.sentiment.sentiment_value

\* a NEGATIVE answer with full confidence became a negative value
C8_Witness ==
    /\ fn = "analyze_sentiment"
    /\ arg.label = "NEGATIVE"
    /\ arg.score = MaxScore
    /\ out.metadata.sentiment_score < 0

\* C11 as stated: when enrichment raises for k of the n new items of a run,
\* the run still finishes, the uploaded count is n - k, and the error count
\* of the run statistics covers those k items.
C11_Original ==
    (pc = "done" /\ Deduped) =>
        /\ stats.total_items_uploaded = Len(new_items) - error_count
        /\ stats.errors >= error_count

\* C12: every record in the index, and every record the run is about to
\* upsert, carries the embedding of its item's text together with the
\* sentiment label and signed score of that same item; the index changes
\* only by records the run built; and the run builds a record for every new
\* item except those whose embedding or metadata raised, which get none.
C12_NoPartialUpload ==
    /\ \A r \in store \cup Range(vectors) :
          LET item == Item(r.source_identifier)
          IN  /\ r.values = GenerateEmbedding(item.text)
              /\ r.sentiment_label = item.sentiment.label
              /\ r.sentiment_label \in {"POSITIVE", "NEGATIVE"}
              /\ r.sentiment_score = item.sentiment.sentiment_value
    /\ \A i \in 1..Len(vectors) :
          \E j \in 1..Len(new_items) :
             /\ vectors[i].source_identifier = new_items[j].id
             /\ vectors[i].values = GenerateEmbedding(new_items[j].text)
             /\ vectors[i].sentiment_label = new_items[j].sentiment.label
    /\ store \subseteq store0 \cup Range(vectors)
    /\ pc \in {"upsert", "save", "done"} =>
          Len(vectors) = Len(new_items) - error_count

\* a finished run uploaded one of two new items with its embedding and a
\* NEGATIVE score, and skipped the other, whose enrichment raised
C12_Witness ==
    /\ pc = "done"
    /\ Len(new_items) = 2
    /\ error_count = 1
    /\ stats.total_items_uploaded = 1
    /\ \E r \in store \ store0 :
          /\ r.sentiment_label = "NEGATIVE"
          /\ r.sentiment_score < 0
          /\ r.values = GenerateEmbedding(TextOf(r.source_identifier))

\* C13: when no call raises, upsert_to_pinecone issues its index.upsert()
\* calls on consecutive slices of the list, in order: the batches
\* concatenated give back the list
\* (every vector is sent exactly once), no batch is empty or longer than
\* batch_size (the default when none is given), every batch but the last has
\* exactly batch_size vectors, and an empty list causes no call.
C13_BatchesPartitionInOrder ==
    fn = "upsert_to_pinecone" =>
        LET size == IF arg.batch_size = None THEN UpsertBatchSize ELSE arg.batch_size
        IN  /\ Concat(out) = arg.vectors
            /\ \A b \in 1..Len(out) : Len(out[b]) \in 1..size
            /\ \A b \in 1..(Len(out) - 1) : Len(out[b]) = size
            /\ arg.vectors = <<>> => out = <<>>

\* a list of two full default batches and one more vector went out in three
\* calls, the last with the single remaining vector
C13_Witness ==
    /\ fn = "upsert_to_pinecone"
    /\ arg.batch_size = None
    /\ Len(arg.vectors) = 2 * UpsertBatchSize + 1
    /\ Len(out) = 3
    /\ out[3] = <<arg.vectors[Len(arg.vectors)]>>

\* C14: when the upsert of a batch raises, the run ends as failed with the
\* index holding what it held at the start of the run plus exactly the
\* records of the batches before the failed one, in order; no uploaded count
\* is reported and the checkpoint file is not written.  A run that goes on
\* to the checkpoint has upserted every batch.
C14_BatchFailurePropagates ==
    /\ (pc = "failed" /\ vectors # <<>>) =>
          /\ batch_i < Len(vectors)
          /\ batch_i % UpsertBatchSize = 0
          /\ store = Upsert(store0, SubSeq(vectors, 1, batch_i))
          /\ stats.total_items_uploaded = 0
          /\ writes = 0
          /\ file = file0
    /\ (pc \in {"save", "done"} /\ vectors # <<>>) =>
          /\ Range(vectors) \subseteq store
          /\ stats.total_items_uploaded = Len(vectors)

\* the second batch failed: the record of the first batch is new in the
\* index, the record of the second is not there
C14_Witness ==
    /\ pc = "failed"
    /\ batch_i = UpsertBatchSize
    /\ Len(vectors) > batch_i
    /\ vectors[1] \in store \ store0
    /\ vectors[Len(vectors)] \notin store

\* C15 as stated: the ids go out in lookups of at most the batch size, a
\* failed lookup contributes nothing, the other lookups are still made, the
\* call returns, and every item of a failed lookup is treated as new.
C15_Original ==
    fn = "check_if_exists" =>
        /\ \A b \in 1..Len(out.lookups) : Len(out.lookups[b]) \in 1..LookupBatchSize
        /\ Range(out.existing_ids) =
              UNION {Range(out.lookups[b]) \cap StoreIds(DedupStore(arg)) :
                        b \in (1..Len(out.lookups)) \ arg.failed}
        /\ \A b \in arg.failed : \A i \in LookupPositions(Len(arg.ids), b) :
              DedupItems(arg)[i] \in Range(out.new_items)

\* C15 (amended): the ids go out, in order, in lookups of at most the batch
\* size; the call returns whatever lookups fail; the ids it returns are
\* those the lookups that did not fail found in the index, so a failed
\* lookup contributes none; and an item of a failed lookup is treated as new
\* (kept by the filter and passed on to enrichment) unless a lookup that did
\* not fail returned the same id.
C15_FailedLookupTreatedAsNew ==
    fn = "check_if_exists" =>
        LET vids == VectorIds(DedupItems(arg), "pissedconsumer")
        IN  /\ Concat(out.lookups) = vids
            /\ \A b \in 1..Len(out.lookups) :
                  Len(out.lookups[b]) \in 1..LookupBatchSize
            /\ Range(out.existing_ids) =
                  UNION {Range(out.lookups[b]) \cap StoreIds(DedupStore(arg)) :
                            b \in (1..Len(out.lookups)) \ arg.failed}
            /\ \A b \in arg.failed : \A i \in LookupPositions(Len(arg.ids), b) :
                  DedupItems(arg)[i] \in Range(out.new_items)
                     <=> vids[i] \notin Range(out.existing_ids)

\* the first of two lookups failed and the second found its id: a stored
\* item of the failed lookup went on as new
C15_Witness ==
    /\ fn = "check_if_exists"
    /\ arg.failed = {1}
    /\ Len(out.lookups) = 2
    /\ out.existing_ids # <<>>
    /\ arg.ids[1] \in arg.stored
    /\ DedupItems(arg)[1] \in Range(out.new_items)

\* C16 as stated: no model inference, sentiment scoring or embedding, is
\* performed for an item whose vector id is in the index at the time of the
\* dedup check.
C16_Original ==
    Deduped =>
        \A item \in SentimentScored \cup EmbeddedItems :
           GenerateVectorId(item.id, SourcePlatform(scraper)) \notin StoreIds(store0)

\* C16 (amended): dedup is ordered before embedding: no embedding is
\* generated before the dedup check, and none for an item whose vector id
\* check_if_exists reported, which, when no lookup failed, is every
\* collected item whose id the index held at the check.  Sentiment scoring
\* is done at fetch time, so every collected item is already scored when
\* the dedup check starts.
C16_DedupBeforeEmbedding ==
    /\ pc \in {"scrape_subreddits", "scrape_posts", "scrape_pages",
               "scrape_reviews", "dedup"} => EmbeddedItems = {}
    /\ \A item \in EmbeddedItems :
          /\ GenerateVectorId(item.id, SourcePlatform(scraper))
                \notin Range(existing_ids)
          /\ ~lookup_failed =>
                GenerateVectorId(item.id, SourcePlatform(scraper))
                   \notin StoreIds(store0)
    /\ pc = "dedup" =>
          \A item \in SentimentScored :
             item.sentiment = AnalyzeSentiment(Analyzer(item.text))

\* a finished run had scored an item the index already held, dropped it at
\* the dedup check, and embedded only the other item
C16_Witness ==
    /\ pc = "done"
    /\ ~lookup_failed
    /\ EmbeddedItems # {}
    /\ \E item \in SentimentScored \ EmbeddedItems :
          /\ item.sentiment.label \in {"POSITIVE", "NEGATIVE"}
          /\ GenerateVectorId(item.id, SourcePlatform(scraper)) \in StoreIds(store0)

\* C17: scrape_new_reviews never requests a page beyond the ceiling (3
\* without a checkpoint, 10 with one), requests a further page only when the
\* page before it yielded at least one review newer than the checkpoint, and
\* always leaves its page loop.
C17_PagingTerminates ==
    /\ [](pc \in {"scrape_pages", "scrape_reviews"} =>
             page_num \in 1..(IF last_timestamp = None THEN 3 ELSE 10))
    /\ []((pc = "scrape_pages" /\ page_num > 1) => new_reviews_on_page > 0)
    /\ (pc \in {"scrape_pages", "scrape_reviews"}) ~> (pc \in {"dedup", "done"})

\* an incremental run is about to request the tenth page, every page so far
\* having shown something new
C17_Witness ==
    /\ pc = "scrape_pages"
    /\ last_timestamp # None
    /\ page_num = 10
    /\ new_reviews_on_page > 0

\* C18: a run that started from a missing or unparseable checkpoint file
\* loaded the empty state without raising and scrapes as a first run does,
\* for every source key: no last timestamp, the first-run listing limit for
\* each subreddit, the first-run page ceiling for PissedConsumer.
C18_UnreadableFileMeansFirstRun ==
    (pc # "idle" /\ ~(file0.exists /\ file0.parses)) =>
        /\ LoadState(file0) = EmptyDict
        /\ DOMAIN state \subseteq Subreddits \cup {PCKey}
        /\ \A k \in DOMAIN state : state[k] = current_timestamp
        /\ pc \in {"scrape_posts", "scrape_pages", "scrape_reviews"} =>
              last_timestamp = None
        /\ pc = "scrape_posts" => limit = 20
        /\ pc \in {"scrape_pages", "scrape_reviews"} => max_pages = 3

\* a run that started from an unparseable file has finished and replaced it
\* by a checkpoint that parses
C18_Witness ==
    /\ pc = "done"
    /\ file0.exists /\ ~file0.parses
    /\ file.parses
    /\ file.content # EmptyDict

C20_ConfigErrorDoesNothing ==
    (fn = "send_weekly_digest_email" /\ (NoCredentials \/ NoRecipient)) =>
        /\ ~out.call.raised
        /\ out.call.result.status = "error"
        /\ "error_message" \in DOMAIN out.call.result
        /\ ~out.file_written
        /\ out.sends = 0
        /\ NoCredentials => ~out.queried

\* the call had both credentials, wanted the digest saved and could write
\* it, but found no recipient
C20_Witness ==
    /\ fn = "send_weekly_digest_email"
    /\ arg.resend /\ ~NoCredentials /\ NoRecipient
    /\ arg.save_to_file /\ arg.write_ok
    /\ out.queried

C22_Original ==
    fn = "get_sentiment_summary" =>
        LET m == Matching(arg.index, arg.platform, arg.timeframe_days)
            n == Cardinality(m)
            p == Cardinality({r \in m : r.sentiment_label = "POSITIVE"})
            q == Cardinality({r \in m : r.sentiment_label = "NEGATIVE"})
        IN  /\ out.total_posts = n
            /\ out.positive_count = p
            /\ out.negative_count = q
            /\ out.positive_percentage.num * n = 100 * p * out.positive_percentage.den
            /\ out.negative_percentage.num * n = 100 * q * out.negative_percentage.den

\* C23: retry_on_failure calls func at most max_retries times; it returns
\* the result of the first call that does not raise, having made no call
\* after it; it returns None when all max_retries calls raised; no exception
\* of func leaves it; and it always ends.
C23_RetryBounded ==
    /\ [](Len(out.log) <= arg.max_retries)
    /\ [](out.ended # "raised")
    /\ [](fn = "retry_on_failure" =>
            IF \E i \in 1..Len(out.log) : out.log[i] # FuncRaised
            THEN /\ \A i \in 1..(Len(out.log) - 1) : out.log[i] = FuncRaised
                 /\ out.result = out.log[Len(out.log)]
            ELSE /\ Len(out.log) = arg.max_retries
                 /\ out.result = None)
    /\ <>(fn = "retry_on_failure")

\* a call with max_retries 3 came back with the result of its third func()
\* call after two that raised
C23_Witness ==
    /\ fn = "retry_on_failure"
    /\ arg.max_retries = 3
    /\ Len(out.log) = 3
    /\ out.result = 1
    /\ out.slept = 2 * arg.delay
    /\ arg.delay > 0

\* C24: a run writes the checkpoint file only after every upload batch of the
\* run has been upserted, and a run in which the dedup or upload step raised
\* has not written the file: it is as the run found it.
C24_CheckpointAfterUploadOnly ==
    /\ (writes > 0 \/ file # file0) =>
          /\ pc = "done"
          /\ batch_i >= Len(vectors)
          /\ store = Upsert(store0, vectors)
    /\ pc = "failed" => (writes = 0 /\ file = file0)

\* the dedup step of a run that had collected items and had a checkpoint on
\* disk raised
C24_Witness ==
    /\ pc = "failed"
    /\ all_data # <<>>
    /\ vectors = <<>>
    /\ file0.exists
    /\ file = file0

\* C25: fetch_recent_posts returns at most limit posts, each of a record of
\* the index that passes the platform, sentiment, post_type and timeframe
\* filters, in descending order of the requested key (timestamp string,
\* absolute sentiment score, upvotes), and count is the number of posts.
C25_FetchFilteredSortedLimited ==
    fn = "fetch_recent_posts" =>
        /\ Len(out.posts) <= arg.limit
        /\ out.count = Len(out.posts)
        /\ \A i \in 1..Len(out.posts) :
              \E r \in arg.index :
                 /\ out.posts[i] = PostOf(r)
                 /\ r.timestamp >= Now - arg.timeframe_days
                 /\ arg.platform # "all" => r.source_platform = arg.platform
                 /\ arg.sentiment = "positive" => r.sentiment_label = "POSITIVE"
                 /\ arg.sentiment = "negative" => r.sentiment_label = "NEGATIVE"
                 /\ arg.post_type # "" => r.post_type = arg.post_type
        /\ \A i \in 1..(Len(out.posts) - 1) :
              LET x == out.posts[i]
                  y == out.posts[i + 1]
              IN  /\ arg.sort_by = "timestamp" =>
                        (x.timestamp = y.timestamp \/ StrLess(y.timestamp, x.timestamp))
                  /\ arg.sort_by = "sentiment_score" =>
                        Abs(x.sentiment_score) >= Abs(y.sentiment_score)
                  /\ arg.sort_by = "upvotes" => x.upvotes >= y.upvotes

\* two Reddit posts came back sorted by sentiment score, the stronger one
\* the negative one
C25_Witness ==
    /\ fn = "fetch_recent_posts"
    /\ arg.sort_by = "sentiment_score"
    /\ arg.platform = "reddit"
    /\ out.count = 2
    /\ out.posts[1].sentiment_score < 0
    /\ out.posts[2].sentiment_score > 0

\* the dated reviews of the site whose timestamp lies in (last, now]
ReviewsBetween(last, now) ==
    {review \in UNION {Range(source[p]) : p \in 1..Len(source)} :
        /\ review.date # Unparseable
        /\ ~IsOld(last, review.date)
        /\ review.date <= now}

\* C26: whenever a PissedConsumer run advances the checkpoint from T0 to T1,
\* every review the site served during the run with a timestamp in (T0, T1]
\* has its record in the store after the run, also when paging stopped at
\* the page ceiling or because a page request raised.
C26_Original ==
    (/\ scraper = "pissedconsumer"
     /\ pc = "done"
     /\ saved
     /\ Checkpoint(file, PCKey) = current_timestamp)
    => \A review \in ReviewsBetween(Checkpoint(file0, PCKey), current_timestamp) :
          GenerateVectorId(ReviewId(review.data_id, review.date),
                           SourcePlatform(scraper)) \in StoreIds(store)

\* the posts of the listing of subreddit k whose creation time lies in
\* (last, now]
PostsBetween(k, last, now) ==
    {post \in Range(source[k]) :
        ~IsOld(last, post.created_utc) /\ post.created_utc <= now}

\* C27: in a Reddit run over several subreddits the saved checkpoint of a
\* subreddit is not moved past posts of that subreddit that were never
\* collected: after a run that saved, every post of a subreddit's listing
\* created in (T0, T1] of that subreddit's checkpoint has its record in the
\* store, also when the listing of that subreddit raised.
C27_Original ==
    (scraper = "reddit" /\ pc = "done" /\ saved)
    => \A k \in 1..Len(TARGET_SUBREDDITS) :
          Checkpoint(file, TARGET_SUBREDDITS[k]) = current_timestamp
          => \A post \in PostsBetween(k, Checkpoint(file0, TARGET_SUBREDDITS[k]),
                                      current_timestamp) :
                GenerateVectorId(post.id, SourcePlatform(scraper))
                    \in StoreIds(store)

\* C30: re-running a scraper against an unchanged source adds nothing: a run
\* that follows a run of the same scraper which saved its checkpoint (the
\* runs start without a state file, so a file is the trace of such a run)
\* leaves the set of records in the store as it found it.
C30_Original ==
    (pc # "idle" /\ file0.exists) => store = store0

\* C28: init_agent creates the agent at most once per process, also for
\* calls awaited concurrently on one event loop: create_agent has built at
\* most one agent and all callers that returned hold the same agent;
\* get_agent raises exactly while no init_agent call has returned, and
\* returns the agent the callers hold afterwards.
C28_Original ==
    /\ created <= 1
    /\ \A c, d \in Callers :
          (calls[c].pc = "returned" /\ calls[d].pc = "returned")
          => calls[c].result = calls[d].result
    /\ fn = "get_agent" =>
          /\ out.raised <=> ~out.completed
          /\ ~out.raised =>
                \A c \in Callers :
                   calls[c].pc = "returned" => calls[c].result = out.agent

\* send_weekly_digest_email(arg) has passed its checks: the library, both
\* credentials, at least one recipient
ChecksPassed == arg.resend /\ ~NoCredentials /\ ~NoRecipient

\* what C29 says of the result: a send was attempted for every recipient,
\* the two counts add up to the number of recipients and are those of the
\* sends that succeeded and failed, and the status is "success" exactly when
\* a send succeeded
AllAttempted ==
    /\ "successful_sends" \in DOMAIN Answer.result
    /\ out.sends = Recipients(arg)
    /\ Answer.result.total_recipients = Recipients(arg)
    /\ Answer.result.successful_sends + Answer.result.failed_sends
          = Answer.result.total_recipients
    /\ Answer.result.failed_sends
          = Cardinality(arg.rejected \cap 1..Recipients(arg))
    /\ Answer.result.status = "success" <=> Answer.result.successful_sends > 0

\* C29 as stated: once the credentials and recipient checks have passed,
\* send_weekly_digest_email attempts a send to every recipient and its
\* result has successful_sends + failed_sends = total_recipients, with
\* status "success" if and only if at least one send succeeded.
C29_Original ==
    (fn = "send_weekly_digest_email" /\ ChecksPassed) => AllAttempted

\* C29: once the checks have passed and the digest file, where one was asked
\* for, has been written, send_weekly_digest_email attempts a send to every
\* recipient, also after a send that failed; successful_sends + failed_sends
\* = total_recipients and the status is "success" if and only if at least
\* one send succeeded.  Where writing the file raises, no send is attempted
\* and the result is {status "error", error_message}.
C29_EveryRecipientAttempted ==
    (fn = "send_weekly_digest_email" /\ ChecksPassed) =>
        IF arg.save_to_file /\ ~arg.write_ok
        THEN /\ out.sends = 0
             /\ Answer.result.status = "error"
             /\ "error_message" \in DOMAIN Answer.result
        ELSE AllAttempted

\* the send to the first of two recipients raised, the second was attempted
\* and succeeded
C29_Witness ==
    /\ fn = "send_weekly_digest_email"
    /\ ChecksPassed
    /\ Recipients(arg) = 2
    /\ arg.rejected = {1}
    /\ out.sends = 2
    /\ Answer.result.email_results = <<"error", "success">>
    /\ Answer.result.status = "success"

====
